---------------------------- MODULE Spec2Model ----------------------------
(***************************************************************************)
(* Model of all_project_analyzer.py: SymbolVisitor (the scope-aware symbol *)
(* table walking one file's syntax tree), ProjectAnalyzer (per-file        *)
(* analysis, the project-wide definition index, the undefined and unused   *)
(* passes, and the depth-first cycle detection over the import graph).     *)
(*                                                                         *)
(* A syntax tree is a value of nested records; the recursion of            *)
(* ast.NodeVisitor is an explicit agenda of pending visits, one action per *)
(* visit_* method.  Paths are sequences of path components.                *)
(***************************************************************************)
EXTENDS Integers, Sequences, FiniteSets, TLC

(***************************************************************************)
(* Bounds of the model.                                                    *)
(***************************************************************************)
\* longest module body (number of top-level statements) of a single-file project
MaxStmts == 2
\* number of files of the multi-file project
NumProjectFiles == 2
\* number of files of the import graphs cycle detection is explored on
NumGraphFiles == 3
\* most import edges of such a graph
MaxEdges == 3

(***************************************************************************)
(* Syntax nodes (the ast module's node classes, the fields the visitor     *)
(* reads).                                                                 *)
(***************************************************************************)
Nil == [k |-> "None"]

Name(id, ctx, line) == [k |-> "Name", id |-> id, ctx |-> ctx, line |-> line]
Load(id, line) == Name(id, "Load", line)
Store(id, line) == Name(id, "Store", line)
TupleNode(elts) == [k |-> "Tuple", elts |-> elts]
Call(func, args) == [k |-> "Call", func |-> func, args |-> args]
Expr(value) == [k |-> "Expr", value |-> value]
Assign(targets, value, line) ==
    [k |-> "Assign", targets |-> targets, value |-> value, line |-> line]
For(target, iter, body) == [k |-> "For", target |-> target, iter |-> iter, body |-> body]
\* ast.arguments: the five groups of parameter names
Arguments(posonlyargs, args, vararg, kwonlyargs, kwarg) ==
    [posonlyargs |-> posonlyargs, args |-> args, vararg |-> vararg,
     kwonlyargs |-> kwonlyargs, kwarg |-> kwarg]
NoArgs == Arguments(<<>>, <<>>, <<>>, <<>>, <<>>)
FunctionDef(name, args, body, line) ==
    [k |-> "FunctionDef", name |-> name, args |-> args, body |-> body, line |-> line]
Lambda(args, body) == [k |-> "Lambda", args |-> args, body |-> body]
ClassDef(name, body, line) == [k |-> "ClassDef", name |-> name, body |-> body, line |-> line]
Comprehension(target, iter, ifs) ==
    [k |-> "comprehension", target |-> target, iter |-> iter, ifs |-> ifs]
ListComp(elt, generators) == [k |-> "ListComp", elt |-> elt, generators |-> generators]
GeneratorExp(elt, generators) ==
    [k |-> "GeneratorExp", elt |-> elt, generators |-> generators]
DictComp(key, value, generators) ==
    [k |-> "DictComp", key |-> key, value |-> value, generators |-> generators]
Alias(name, asname) == [name |-> name, asname |-> asname]
Import(names) == [k |-> "Import", names |-> names]
ImportFrom(module, names, level) ==
    [k |-> "ImportFrom", module |-> module, names |-> names, level |-> level]
Module(body) == [k |-> "Module", body |-> body]
\* a file open() or ast.parse() raises on: there is no tree
Unparsable == [k |-> "SyntaxError"]

\* a dotted module name is the sequence of its segments; "" is the empty sequence
NoAsname == ""


(***************************************************************************)
(* The inputs: the syntax trees the file enumerator hands to the analyzer. *)
(***************************************************************************)
\* set(dir(builtins)), restricted to the builtin names the trees mention
Builtins == {"len"}
\* the two magic names the module scope and the project index start with
MagicNames == {"__file__", "__name__"}

\* one parameter p, in one of the five groups of ast.arguments
ArgsOfKind(kind, p) ==
    CASE kind = "posonly" -> Arguments(<<p>>, <<>>, <<>>, <<>>, <<>>)
      [] kind = "args"    -> Arguments(<<>>, <<p>>, <<>>, <<>>, <<>>)
      [] kind = "vararg"  -> Arguments(<<>>, <<>>, <<p>>, <<>>, <<>>)
      [] kind = "kwonly"  -> Arguments(<<>>, <<>>, <<>>, <<p>>, <<>>)
      [] kind = "kwarg"   -> Arguments(<<>>, <<>>, <<>>, <<>>, <<p>>)
ParamKinds == {"posonly", "args", "vararg", "kwonly", "kwarg"}

\* x = len
AssignX(l) == Assign(<<Store("x", l)>>, Load("len", l), l)

\* The statements a module body is made of, written at line l (a compound
\* statement continues on lines l+1 and l+2).
UseStmts(l) == {Expr(Load(n, l)) : n \in {"len", "f", "x", "u"}}
              \cup {Expr(TupleNode(<<Load("u", l), Load("u", l)>>))}
AssignStmts(l) ==
    {AssignX(l),
     Assign(<<Store("x", l)>>, Load("u", l), l),
     Assign(<<TupleNode(<<Store("x", l), Store("y", l)>>)>>, Load("len", l), l)}
FunctionStmts(l) ==
    {FunctionDef("f", ArgsOfKind(kd, "p"), <<Expr(Load("p", l))>>, l) : kd \in ParamKinds}
    \cup
    {\* def f():            a nested function reads the local x that f
     \*     def g(): x      assigns only after the nested definition
     \*     x = len
     FunctionDef("f", NoArgs,
                 <<FunctionDef("g", NoArgs, <<Expr(Load("x", l + 1))>>, l + 1),
                   AssignX(l + 2)>>, l),
     \* def f():            a read before the binding, in the same scope
     \*     y
     \*     y = len
     FunctionDef("f", NoArgs,
                 <<Expr(Load("y", l + 1)),
                   Assign(<<Store("y", l + 2)>>, Load("len", l + 2), l + 2)>>, l),
     FunctionDef("__init__", NoArgs, <<Expr(Load("len", l))>>, l)}
LambdaStmts(l) ==
    {Expr(Lambda(ArgsOfKind(kd, "p"), Load("p", l))) : kd \in {"args", "vararg"}}
ClassStmts(l) ==
    {ClassDef("C", <<FunctionDef("m", ArgsOfKind("args", "self"),
                                 <<Expr(Load("self", l + 1))>>, l + 1)>>, l),
     \* a nested class, entered and left before the method m
     ClassDef("C", <<ClassDef("D", <<AssignX(l + 1)>>, l + 1),
                     FunctionDef("m", NoArgs, <<Expr(Load("len", l + 2))>>, l + 2)>>, l),
     ClassDef("C", <<AssignX(l + 1),
                     FunctionDef("m", NoArgs, <<Expr(Load("x", l + 2))>>, l + 2)>>, l)}
CompStmts(l) ==
    {Expr(ListComp(Load("x", l), <<Comprehension(Store("x", l), Load("len", l), <<>>)>>)),
     Expr(ListComp(Load("y", l),
          <<Comprehension(TupleNode(<<Store("x", l), Store("y", l)>>),
                          Load("len", l), <<>>)>>)),
     Expr(ListComp(Load("z", l),
          <<Comprehension(TupleNode(<<Store("x", l),
                                      TupleNode(<<Store("y", l), Store("z", l)>>)>>),
                          Load("len", l), <<>>)>>)),
     Expr(GeneratorExp(Load("x", l),
          <<Comprehension(Store("x", l), Load("len", l), <<Load("x", l)>>)>>))}
    \cup
    {Expr(DictComp(Load(kv[1], l), Load(kv[2], l),
                   <<Comprehension(Store("x", l), Load("len", l), <<>>)>>))
        : kv \in {<<"x", "x">>, <<"u", "x">>, <<"x", "u">>}}
ImportStmts(l) ==
    {Import(<<Alias("b", NoAsname)>>),
     ImportFrom(<<"b">>, <<Alias("f", NoAsname)>>, 0),
     ImportFrom(<<"a">>, <<Alias("f", NoAsname)>>, 0),
     ImportFrom(<<>>, <<Alias("b", NoAsname)>>, 1)}
ForStmts(l) == {For(Store("x", l), Load("len", l), <<Expr(Load("x", l))>>)}

StmtsAt(l) ==
    UseStmts(l) \cup AssignStmts(l) \cup FunctionStmts(l) \cup LambdaStmts(l)
    \cup ClassStmts(l) \cup CompStmts(l) \cup ImportStmts(l) \cup ForStmts(l)

\* the i-th top-level statement starts at line 3i - 2
LineOfStmt(i) == 3 * i - 2

RECURSIVE Bodies(_, _)
\* the statement sequences of length n, statement i drawn from S[i]
Bodies(n, S) ==
    IF n = 0 THEN {<<>>}
    ELSE {Append(b, s) : b \in Bodies(n - 1, S), s \in S[n]}

Trees ==
    LET S == [i \in 1..MaxStmts |-> StmtsAt(LineOfStmt(i))]
    IN  {Module(b) : b \in UNION {Bodies(n, S) : n \in 1..MaxStmts}} \cup {Unparsable}


(***************************************************************************)
(* Paths.  An absolute path is the sequence of its components below "/";   *)
(* a file of the project is named by its path relative to the root.        *)
(***************************************************************************)
ProjectRoot == <<"proj">>
FileA == <<"a.py">>
FileB == <<"b.py">>
FileC == <<"c.py">>
\* the files of the multi-file project, and of the single-file project
SingleFile == {FileA}
\* all file names, in the order Python's string comparison gives their paths
FilesSorted ==
    <<FileA, FileB, FileC, <<"d.py">>, <<"pkg", "__init__.py">>, <<"pkg", "mod.py">>,
      <<"pkg", "sibling.py">>, <<"pkg", "sibling", "__init__.py">>>>
FileRank(f) == CHOOSE i \in 1..Len(FilesSorted) : FilesSorted[i] = f
ProjectFiles == {FilesSorted[i] : i \in 1..NumProjectFiles}

dirname(p) == IF p = <<>> THEN <<>> ELSE SubSeq(p, 1, Len(p) - 1)
RECURSIVE Collapse(_, _)
Collapse(done, rest) ==
    IF rest = <<>> THEN done
    ELSE IF Head(rest) = ".." THEN Collapse(dirname(done), Tail(rest))
    ELSE Collapse(Append(done, Head(rest)), Tail(rest))
\* os.path.normpath: the '..' components collapsed
normpath(p) == Collapse(<<>>, p)
\* the absolute path of a file named relative to the root; a file that is on
\* disk outside the root has a name that starts with '..'
AbsPath(rel) == normpath(ProjectRoot \o rel)

RECURSIVE Ascend(_, _)
\* os.path.abspath(os.path.join(dir, '..', ..., '..')) with n times '..'
Ascend(dir, n) == IF n = 0 THEN dir ELSE Ascend(dirname(dir), n - 1)

\* base + '.py' and base + '/__init__.py'
WithPy(base) ==
    IF base = <<>> THEN <<".py">>
    ELSE [base EXCEPT ![Len(base)] = @ \o ".py"]
WithInit(base) == base \o <<"__init__.py">>
Candidates(base) == <<WithPy(base), WithInit(base)>>

\* pairs (s, t) of path components with s a proper character prefix of t
ProperCharPrefix == {<<"proj", "proj.py">>, <<"proj", "proj2">>}
\* str.startswith on the path strings
StartsWith(p, r) ==
    \/ r = <<>>
    \/ /\ Len(p) >= Len(r)
       /\ SubSeq(p, 1, Len(r) - 1) = SubSeq(r, 1, Len(r) - 1)
       /\ \/ p[Len(r)] = r[Len(r)]
          \/ <<r[Len(r)], p[Len(r)]>> \in ProperCharPrefix

RECURSIVE CommonLen(_, _)
CommonLen(p, q) ==
    IF p # <<>> /\ q # <<>> /\ Head(p) = Head(q)
    THEN 1 + CommonLen(Tail(p), Tail(q)) ELSE 0
\* os.path.relpath(p, start)
relpath(p, start) ==
    LET c == CommonLen(p, start)
    IN  [i \in 1..(Len(start) - c) |-> ".."] \o SubSeq(p, c + 1, Len(p))

(***************************************************************************)
(* State.                                                                  *)
(***************************************************************************)
VARIABLES
    files,               \* input: the project's files, relative path -> syntax tree
    pc,                  \* where ProjectAnalyzer.analyze is
    todo,                \* files of py_files not yet handed to _analyze_file
    cur,                 \* SymbolVisitor.file_path (relative to the root)
    agenda,              \* the pending visits of the running traversal
    scope_stack,         \* SymbolVisitor._scope_stack
    definitions,         \* SymbolVisitor.definitions
    used_symbols,        \* SymbolVisitor.used_symbols
    imports,             \* SymbolVisitor.imports
    current_class_name,  \* SymbolVisitor._current_class_name
    file_map,            \* ProjectAnalyzer.file_map
    file_order,          \* the insertion order of file_map's keys
    all_defined_symbols, \* ProjectAnalyzer.all_defined_symbols
    undefined_symbols,   \* the list _find_undefined_symbols returns
    unused_symbols,      \* the list _find_unused_symbols returns
    cycles,              \* _detect_circular_imports: cycles
    path,                \* _detect_circular_imports: path
    visiting,            \* _detect_circular_imports: visiting
    visited,             \* _detect_circular_imports: visited
    frames,              \* the active calls of dfs: node and neighbours still to iterate
    dfs_i,               \* position of "for node in graph"
    report,              \* the "issues" of the final report
    run,                 \* 1: first run of the analysis, 2: a second run on the same input
    prev,                \* the issues the first run reported
    prev_order,          \* the order in which the first run analyzed the files
    last,                \* history: the visit performed by the latest traversal step
    load_log,            \* history: every Name read the traversal has processed
    vpc,                 \* where the dependency visualizer's main is
    dependencies,        \* DependencyAnalyzer.dependencies
    circular_pairs,      \* the set find_circular_dependencies returns
    lines,               \* MermaidGenerator.generate: lines
    diagram              \* the text MermaidGenerator.generate returns

visitorVars == <<agenda, scope_stack, definitions, used_symbols, imports, current_class_name>>
indexVars == <<file_map, file_order, all_defined_symbols>>
issueVars == <<undefined_symbols, unused_symbols, report>>
dfsVars == <<cycles, path, visiting, visited, frames, dfs_i>>
ctlVars == <<pc, todo, cur>>
runVars == <<run, prev, prev_order>>
diagramVars == <<vpc, dependencies, circular_pairs, lines, diagram>>
vars == <<files, visitorVars, indexVars, issueVars, dfsVars, ctlVars, runVars, last, load_log,
          diagramVars>>

NoClass == "<None>"
NoFile == <<>>
NoIssues == [undefined_symbols |-> <<>>, unused_symbols |-> <<>>, circular_imports |-> <<>>]

Visit(n) == [op |-> "visit", node |-> n, i |-> 0]
Pop == [op |-> "pop", node |-> Nil, i |-> 0]
LeaveClass == [op |-> "leave_class", node |-> Nil, i |-> 0]
Target(n, i) == [op |-> "target", node |-> n, i |-> i]
NoStep == [op |-> "none", node |-> Nil, i |-> 0]
Visits(nodes) == [j \in 1..Len(nodes) |-> Visit(nodes[j])]
Range(s) == {s[j] : j \in 1..Len(s)}

(***************************************************************************)
(* SymbolVisitor: the scope helpers.                                       *)
(***************************************************************************)
\* mutant: the name is added to every open scope
add_defined_AllScopes(name, stack) == [i \in 1..Len(stack) |-> stack[i] \cup {name}]
add_defined(name, stack) ==
    IF stack # <<>> THEN [stack EXCEPT ![Len(stack)] = @ \cup {name}] ELSE stack

RECURSIVE defined_from(_, _, _)
\* the loop of _is_defined_in_scope, from scope i down to the module scope
defined_from(name, stack, i) ==
    IF i = 0 THEN FALSE
    ELSE IF name \in stack[i] THEN TRUE
    ELSE defined_from(name, stack, i - 1)
is_defined_in_scope(name, stack) == defined_from(name, stack, Len(stack))

\* os.path.exists, on the Python files on disk
exists(p) == p \in {AbsPath(f) : f \in DOMAIN files}
\* _get_python_files: os.walk finds the files below the root
PythonFiles == {f \in DOMAIN files : f[1] # ".."}

\* the loop over ['.py', '/__init__.py']: the first existing candidate (inside
\* the root, when the branch checks it), or <<>> for None
FirstCandidate(base, check_root) ==
    LET c == Candidates(base)
        ok(q) == exists(q) /\ (check_root => StartsWith(q, ProjectRoot))
    IN  IF ok(c[1]) THEN c[1] ELSE IF ok(c[2]) THEN c[2] ELSE <<>>
\* _resolve_import_path; module_name is the sequence of the dotted name's segments
resolve_import_path(file_path, module_name, level) ==
    IF level = 0
    THEN FirstCandidate(ProjectRoot \o module_name, FALSE)
    ELSE LET current_dir == dirname(file_path)
             base_path == Ascend(current_dir, level - 1)
         IN  FirstCandidate(base_path \o module_name, TRUE)


(***************************************************************************)
(* SymbolVisitor: one action per visit_* method.  A step takes the first   *)
(* pending visit off the agenda and puts the visits the method makes, in   *)
(* the method's order, in front of the rest.                               *)
(***************************************************************************)
Next1 == agenda[1]
Rest == Tail(agenda)
AtVisit(kinds) ==
    /\ pc = "visit" /\ agenda # <<>>
    /\ Next1.op = "visit" /\ Next1.node.k \in kinds
NotVisitor == UNCHANGED <<files, indexVars, issueVars, dfsVars, ctlVars, runVars, diagramVars>>

\* the Name reads of the traversal, with whether some open scope holds the name
Logged(n, stack) ==
    load_log \cup {[file |-> cur, id |-> n.id, line |-> n.line,
                    resolved |-> \E j \in 1..Len(stack) : n.id \in stack[j]]}

\* the children generic_visit visits, in field order
Children(n) ==
    CASE n.k = "Module"      -> n.body
      [] n.k = "Expr"        -> <<n.value>>
      [] n.k = "Tuple"       -> n.elts
      [] n.k = "Call"        -> <<n.func>> \o n.args
      [] n.k = "For"         -> <<n.target, n.iter>> \o n.body
      [] n.k = "FunctionDef" -> n.body
      [] n.k = "ClassDef"    -> n.body
      [] n.k = "Lambda"      -> <<n.body>>
GenericKinds == {"Module", "Expr", "Tuple", "Call", "For"}

generic_visit ==
    /\ AtVisit(GenericKinds)
    /\ agenda' = Visits(Children(Next1.node)) \o Rest
    /\ last' = Next1
    /\ UNCHANGED <<scope_stack, definitions, used_symbols, imports, current_class_name,
                   load_log>>
    /\ NotVisitor

\* the scope visit_FunctionDef and visit_Lambda open: {arg.arg for arg in node.args.args}
ScopeOfArgs(args) == Range(args.args)

visit_FunctionDef ==
    /\ AtVisit({"FunctionDef"})
    /\ LET node == Next1.node
           is_method == current_class_name # NoClass
       IN  /\ definitions' =
                 IF ~is_method
                 THEN Append(definitions,
                             [type |-> "function", name |-> node.name,
                              line |-> node.line, args |-> node.args.args])
                 ELSE definitions
           /\ scope_stack' = Append(add_defined(node.name, scope_stack),
                                    ScopeOfArgs(node.args))
           /\ agenda' = Visits(Children(node)) \o <<Pop>> \o Rest
    /\ last' = Next1
    /\ UNCHANGED <<used_symbols, imports, current_class_name, load_log>>
    /\ NotVisitor

visit_Lambda ==
    /\ AtVisit({"Lambda"})
    /\ scope_stack' = Append(scope_stack, ScopeOfArgs(Next1.node.args))
    /\ agenda' = Visits(Children(Next1.node)) \o <<Pop>> \o Rest
    /\ last' = Next1
    /\ UNCHANGED <<definitions, used_symbols, imports, current_class_name, load_log>>
    /\ NotVisitor

\* node.elt if hasattr(node, 'elt') else node.value
YieldedOf(node) == IF node.k = "DictComp" THEN node.value ELSE node.elt
CompKinds == {"ListComp", "SetComp", "DictComp", "GeneratorExp"}

handle_comprehension ==
    /\ AtVisit(CompKinds)
    /\ scope_stack' = Append(scope_stack, {})
    /\ agenda' = Visits(Next1.node.generators) \o <<Visit(YieldedOf(Next1.node))>>
                    \o <<Pop>> \o Rest
    /\ last' = Next1
    /\ UNCHANGED <<definitions, used_symbols, imports, current_class_name, load_log>>
    /\ NotVisitor

RECURSIVE add_all(_, _)
add_all(names, stack) ==
    IF names = {} THEN stack
    ELSE LET n == CHOOSE n \in names : TRUE
         IN  add_all(names \ {n}, add_defined(n, stack))

\* the names visit_comprehension binds for a target
TargetNames(target) ==
    IF target.k = "Name" THEN {target.id}
    ELSE IF target.k = "Tuple"
    THEN {target.elts[j].id : j \in {j \in 1..Len(target.elts) : target.elts[j].k = "Name"}}
    ELSE {}

visit_comprehension ==
    /\ AtVisit({"comprehension"})
    /\ scope_stack' = add_all(TargetNames(Next1.node.target), scope_stack)
    /\ agenda' = <<Visit(Next1.node.iter)>> \o Visits(Next1.node.ifs) \o Rest
    /\ last' = Next1
    /\ UNCHANGED <<definitions, used_symbols, imports, current_class_name, load_log>>
    /\ NotVisitor

\* the names of the functions directly in a class body, in order
IsFunctionDef(stmt) == stmt.k = "FunctionDef"
MethodsOf(body) ==
    LET fs == SelectSeq(body, IsFunctionDef)
    IN  [j \in 1..Len(fs) |-> fs[j].name]

visit_ClassDef ==
    /\ AtVisit({"ClassDef"})
    /\ LET node == Next1.node
       IN  /\ definitions' = Append(definitions,
                                    [type |-> "class", name |-> node.name,
                                     line |-> node.line, methods |-> MethodsOf(node.body)])
           /\ scope_stack' = Append(add_defined(node.name, scope_stack), {})
           /\ current_class_name' = node.name
           /\ agenda' = Visits(Children(node)) \o <<LeaveClass>> \o Rest
    /\ last' = Next1
    /\ UNCHANGED <<used_symbols, imports, load_log>>
    /\ NotVisitor

\* self._scope_stack.pop() after generic_visit
pop_scope ==
    /\ pc = "visit" /\ agenda # <<>> /\ Next1.op = "pop"
    /\ scope_stack' = SubSeq(scope_stack, 1, Len(scope_stack) - 1)
    /\ agenda' = Rest
    /\ last' = Next1
    /\ UNCHANGED <<definitions, used_symbols, imports, current_class_name, load_log>>
    /\ NotVisitor

\* the end of visit_ClassDef
leave_class ==
    /\ pc = "visit" /\ agenda # <<>> /\ Next1.op = "leave_class"
    /\ scope_stack' = SubSeq(scope_stack, 1, Len(scope_stack) - 1)
    /\ current_class_name' = NoClass
    /\ agenda' = Rest
    /\ last' = Next1
    /\ UNCHANGED <<definitions, used_symbols, imports, load_log>>
    /\ NotVisitor

\* visit_Assign: the value first, then the targets one by one
visit_Assign ==
    /\ AtVisit({"Assign"})
    /\ agenda' = <<Visit(Next1.node.value), Target(Next1.node, 1)>> \o Rest
    /\ last' = Next1
    /\ UNCHANGED <<scope_stack, definitions, used_symbols, imports, current_class_name,
                   load_log>>
    /\ NotVisitor

\* one iteration of "for target in node.targets"
assign_target ==
    /\ pc = "visit" /\ agenda # <<>> /\ Next1.op = "target"
    /\ LET node == Next1.node
           i == Next1.i
           more == IF i < Len(node.targets) THEN <<Target(node, i + 1)>> ELSE <<>>
           target == node.targets[i]
       IN  IF target.k = "Name"
           THEN /\ definitions' =
                     IF Len(scope_stack) = 1
                     THEN Append(definitions,
                                 [type |-> "variable", name |-> target.id,
                                  line |-> node.line])
                     ELSE definitions
                /\ scope_stack' = add_defined(target.id, scope_stack)
                /\ agenda' = more \o Rest
           ELSE /\ agenda' = <<Visit(target)>> \o more \o Rest
                /\ UNCHANGED <<scope_stack, definitions>>
    /\ last' = Next1
    /\ UNCHANGED <<used_symbols, imports, current_class_name, load_log>>
    /\ NotVisitor

visit_Name ==
    /\ AtVisit({"Name"})
    /\ LET node == Next1.node
       IN  /\ IF node.ctx = "Load" /\ ~is_defined_in_scope(node.id, scope_stack)
              THEN /\ used_symbols' = Append(used_symbols, <<node.id, node.line>>)
                   /\ UNCHANGED scope_stack
              ELSE IF node.ctx = "Store"
              THEN /\ scope_stack' = add_defined(node.id, scope_stack)
                   /\ UNCHANGED used_symbols
              ELSE UNCHANGED <<scope_stack, used_symbols>>
           /\ load_log' = IF node.ctx = "Load" THEN Logged(node, scope_stack) ELSE load_log
    /\ agenda' = Rest
    /\ last' = Next1
    /\ UNCHANGED <<definitions, imports, current_class_name>>
    /\ NotVisitor

\* alias.asname or alias.name, for every alias
AliasNames(names) ==
    {IF names[j].asname # NoAsname THEN names[j].asname ELSE names[j].name
        : j \in 1..Len(names)}

visit_Import ==
    /\ AtVisit({"Import"})
    /\ scope_stack' = add_all(AliasNames(Next1.node.names), scope_stack)
    /\ agenda' = Rest
    /\ last' = Next1
    /\ UNCHANGED <<definitions, used_symbols, imports, current_class_name, load_log>>
    /\ NotVisitor

visit_ImportFrom ==
    /\ AtVisit({"ImportFrom"})
    /\ LET node == Next1.node
           resolved_path == resolve_import_path(AbsPath(cur), node.module, node.level)
       IN  /\ imports' = IF resolved_path # <<>> THEN imports \cup {resolved_path}
                         ELSE imports
           /\ scope_stack' = add_all(AliasNames(node.names), scope_stack)
    /\ agenda' = Rest
    /\ last' = Next1
    /\ UNCHANGED <<definitions, used_symbols, current_class_name, load_log>>
    /\ NotVisitor

Traverse ==
    \/ generic_visit \/ visit_FunctionDef \/ visit_Lambda \/ handle_comprehension
    \/ visit_comprehension \/ visit_ClassDef \/ pop_scope \/ leave_class
    \/ visit_Assign \/ assign_target \/ visit_Name \/ visit_Import \/ visit_ImportFrom


(***************************************************************************)
(* ProjectAnalyzer: the loop of analyze over the files, and the index.     *)
(***************************************************************************)
InitialIndex == Builtins \cup MagicNames
NotAnalyzer == UNCHANGED <<files, dfsVars, runVars, diagramVars, last, load_log>>

\* _analyze_file, up to visitor.visit(tree): any file still to do (os.walk order)
start_file ==
    /\ pc = "scan" /\ todo # {}
    /\ \E f \in todo :
          /\ files[f] # Unparsable
          /\ cur' = f
          /\ todo' = todo \ {f}
          /\ agenda' = <<Visit(files[f])>>
    /\ scope_stack' = <<MagicNames>>
    /\ definitions' = <<>>
    /\ used_symbols' = <<>>
    /\ imports' = {}
    /\ current_class_name' = NoClass
    /\ pc' = "visit"
    /\ UNCHANGED <<indexVars, issueVars>>
    /\ NotAnalyzer

\* mutant: a file that fails leaves an empty entry in file_map
skip_file_EmptyEntry ==
    /\ pc = "scan" /\ todo # {}
    /\ \E f \in todo :
          /\ files[f] = Unparsable
          /\ todo' = todo \ {f}
          /\ file_map' = [g \in DOMAIN file_map \cup {f} |->
                              IF g = f THEN [definitions |-> <<>>, used_symbols |-> <<>>,
                                             imports |-> {}]
                              ELSE file_map[g]]
          /\ file_order' = Append(file_order, f)
    /\ UNCHANGED <<pc, cur, visitorVars, all_defined_symbols, issueVars>>
    /\ UNCHANGED <<files, dfsVars, runVars, diagramVars, last, load_log>>

\* _analyze_file when open() or ast.parse() raises: the except branch prints
\* the error and the file leaves nothing behind
skip_file ==
    /\ pc = "scan" /\ todo # {}
    /\ \E f \in todo :
          /\ files[f] = Unparsable
          /\ todo' = todo \ {f}
    /\ UNCHANGED <<pc, cur, visitorVars, indexVars, issueVars>>
    /\ NotAnalyzer

\* _analyze_file, after the traversal: the entry of file_map
finish_file ==
    /\ pc = "visit" /\ agenda = <<>>
    /\ LET rel_path == relpath(AbsPath(cur), ProjectRoot)
           entry == [definitions |-> definitions,
                     used_symbols |-> used_symbols,
                     imports |-> {relpath(q, ProjectRoot) : q \in imports}]
       IN  /\ file_map' = [f \in DOMAIN file_map \cup {rel_path} |->
                              IF f = rel_path THEN entry ELSE file_map[f]]
           /\ file_order' = IF rel_path \in DOMAIN file_map THEN file_order
                            ELSE Append(file_order, rel_path)
    /\ pc' = "scan"
    /\ cur' = NoFile
    /\ UNCHANGED <<todo, visitorVars, all_defined_symbols, issueVars>>
    /\ NotAnalyzer

\* the names of a list of definitions
DefNames(defs) == {defs[j].name : j \in 1..Len(defs)}

\* mutant: the variable definitions are left out of the index
CollectedSymbols_NoVariables(index, fm) ==
    index \cup UNION {{fm[f].definitions[j].name :
                          j \in {j \in 1..Len(fm[f].definitions) :
                                    fm[f].definitions[j].type # "variable"}}
                      : f \in DOMAIN fm}

\* the index after _collect_all_defined_symbols
CollectedSymbols(index, fm) ==
    index \cup UNION {DefNames(fm[f].definitions) : f \in DOMAIN fm}

collect_all_defined_symbols ==
    /\ pc = "scan" /\ todo = {}
    /\ all_defined_symbols' = CollectedSymbols(all_defined_symbols, file_map)
    /\ pc' = "undefined"
    /\ UNCHANGED <<todo, cur, visitorVars, file_map, file_order, issueVars>>
    /\ NotAnalyzer

(***************************************************************************)
(* The undefined and unused passes.                                        *)
(***************************************************************************)
\* the findings of one file: its pending uses whose name the index lacks
UndefinedOfFile(fm, f, index) ==
    LET us == fm[f].used_symbols
        idx == SelectSeq([j \in 1..Len(us) |-> j], LAMBDA j : us[j][1] \notin index)
    IN  [j \in 1..Len(idx) |->
            [symbol |-> us[idx[j]][1], file |-> f, line |-> us[idx[j]][2]]]

RECURSIVE UndefinedRaw_From(_, _, _)
UndefinedRaw_From(fm, order, sofar) ==
    IF order = <<>> THEN <<>>
    ELSE LET now == sofar \cup DefNames(fm[Head(order)].definitions)
         IN  UndefinedOfFile(fm, Head(order), now) \o UndefinedRaw_From(fm, Tail(order), now)
\* mutant: each file is checked against the definitions of the files analyzed so far
UndefinedRaw_IndexSoFar(fm, order, index) == UndefinedRaw_From(fm, order, InitialIndex)

RECURSIVE UndefinedRaw(_, _, _)
\* the list undefined_symbols of _find_undefined_symbols, before the duplicates go
UndefinedRaw(fm, order, index) ==
    IF order = <<>> THEN <<>>
    ELSE UndefinedOfFile(fm, Head(order), index) \o UndefinedRaw(fm, Tail(order), index)

\* the lists that hold every element of the set S once
ListsOf(S) ==
    {l \in [1..Cardinality(S) -> S] : Range(l) = S}

\* the lists [dict(t) for t in {tuple(d.items()) for d in undefined_symbols}] can be
Deduplicated(raw) == ListsOf(Range(raw))

find_undefined_symbols ==
    /\ pc = "undefined"
    /\ undefined_symbols' \in
          Deduplicated(UndefinedRaw(file_map, file_order, all_defined_symbols))
    /\ pc' = "unused"
    /\ UNCHANGED <<todo, cur, visitorVars, indexVars, unused_symbols, report>>
    /\ NotAnalyzer

\* name.startswith('__'), for the names of the trees
StartsWithDunder(name) == name \in {"__init__", "__file__", "__name__"}

\* all_used_symbols of _find_unused_symbols
AllUsedSymbols(fm) ==
    UNION {{fm[f].used_symbols[j][1] : j \in 1..Len(fm[f].used_symbols)} : f \in DOMAIN fm}

\* whether _find_unused_symbols reports a definition
ReportsUnused(d, used) ==
    /\ d.type \in {"function", "class"}
    /\ d.name \notin used
    /\ ~StartsWithDunder(d.name)

UnusedOfFile(fm, f, used) ==
    LET ds == SelectSeq(fm[f].definitions, LAMBDA d : ReportsUnused(d, used))
    IN  [j \in 1..Len(ds) |->
            [symbol |-> ds[j].name, type |-> ds[j].type, file |-> f, line |-> ds[j].line]]

RECURSIVE UnusedFrom(_, _, _)
UnusedFrom(fm, order, used) ==
    IF order = <<>> THEN <<>>
    ELSE UnusedOfFile(fm, Head(order), used) \o UnusedFrom(fm, Tail(order), used)

\* the list _find_unused_symbols returns
Unused(fm, order) == UnusedFrom(fm, order, AllUsedSymbols(fm))

find_unused_symbols ==
    /\ pc = "unused"
    /\ unused_symbols' = Unused(file_map, file_order)
    /\ pc' = "cycles"
    /\ UNCHANGED <<todo, cur, visitorVars, indexVars, undefined_symbols, report>>
    /\ NotAnalyzer


(***************************************************************************)
(* _detect_circular_imports.  The recursion of dfs is the sequence frames: *)
(* one frame per active call, with the neighbours its loop has not yet     *)
(* taken.  graph[node] is a set of strings, so the loop takes them in the  *)
(* order of the set's hash table: any order.                               *)
(***************************************************************************)
\* graph.get(node, [])
Neighbours(fm, node) == IF node \in DOMAIN fm THEN fm[node].imports ELSE {}

RECURSIVE InsertFile(_, _)
InsertFile(sorted, x) ==
    IF sorted = <<>> THEN <<x>>
    ELSE IF FileRank(x) < FileRank(Head(sorted)) THEN <<x>> \o sorted
    ELSE <<Head(sorted)>> \o InsertFile(Tail(sorted), x)
RECURSIVE SortFiles(_)
\* tuple(sorted(cycle))
SortFiles(c) ==
    IF c = <<>> THEN <<>>
    ELSE InsertFile(SortFiles(SubSeq(c, 1, Len(c) - 1)), c[Len(c)])

\* path.index(neighbour)
IndexOf(p, x) == CHOOSE i \in 1..Len(p) : p[i] = x /\ \A j \in 1..(i - 1) : p[j] # x

\* mutant: the whole path, not the slice from the neighbour's index
CycleAt_WholePath(p, neighbour) == p \o <<neighbour>>

\* mutant: the slice of the path without the closing repeat of the neighbour
CycleAt_Unclosed(p, neighbour) == SubSeq(p, IndexOf(p, neighbour), Len(p))

\* the cycle closed by the edge to a neighbour that is on the path
CycleAt(p, neighbour) == SubSeq(p, IndexOf(p, neighbour), Len(p)) \o <<neighbour>>

\* sorted_cycle not in {tuple(sorted(c)) for c in cycles}
IsNewCycle(cycle, cs) == SortFiles(cycle) \notin {SortFiles(cs[j]) : j \in 1..Len(cs)}

\* cycles after the branch "if neighbour in visiting"
WithCycle(cs, p, neighbour) ==
    LET cycle == CycleAt(p, neighbour)
    IN  IF IsNewCycle(cycle, cs) THEN Append(cs, cycle) ELSE cs

NotDfs == UNCHANGED <<files, todo, cur, visitorVars, indexVars, issueVars, runVars, diagramVars,
                      last, load_log>>
Top == frames[Len(frames)]

\* one iteration of "for node in graph: if node not in visited: dfs(node)"
dfs_start ==
    /\ pc = "cycles" /\ frames = <<>> /\ dfs_i <= Len(file_order)
    /\ LET node == file_order[dfs_i]
       IN  IF node \notin visited
           THEN /\ visiting' = visiting \cup {node}
                /\ path' = Append(path, node)
                /\ frames' = <<[node |-> node, todo |-> Neighbours(file_map, node)]>>
           ELSE UNCHANGED <<visiting, path, frames>>
    /\ dfs_i' = dfs_i + 1
    /\ UNCHANGED <<pc, cycles, visited>>
    /\ NotDfs

\* mutant: the check "neighbour not in visited" is missing
Recurses_Always(neighbour, done) == TRUE

\* whether dfs recurses into a neighbour that is not on the path
Recurses(neighbour, done) == neighbour \notin done

\* one iteration of "for neighbour in graph.get(node, [])"
dfs_neighbour ==
    /\ pc = "cycles" /\ frames # <<>>
    /\ \E neighbour \in Top.todo :
          LET left == [frames EXCEPT ![Len(frames)].todo = @ \ {neighbour}]
          IN  IF neighbour \in visiting
              THEN /\ cycles' = WithCycle(cycles, path, neighbour)
                   /\ frames' = left
                   /\ UNCHANGED <<visiting, path>>
              ELSE IF Recurses(neighbour, visited)
              THEN /\ visiting' = visiting \cup {neighbour}
                   /\ path' = Append(path, neighbour)
                   /\ frames' = Append(left, [node |-> neighbour,
                                              todo |-> Neighbours(file_map, neighbour)])
                   /\ UNCHANGED cycles
              ELSE /\ frames' = left
                   /\ UNCHANGED <<cycles, visiting, path>>
    /\ UNCHANGED <<pc, visited, dfs_i>>
    /\ NotDfs

\* the end of dfs(node)
dfs_return ==
    /\ pc = "cycles" /\ frames # <<>> /\ Top.todo = {}
    /\ path' = SubSeq(path, 1, Len(path) - 1)
    /\ visiting' = visiting \ {Top.node}
    /\ visited' = visited \cup {Top.node}
    /\ frames' = SubSeq(frames, 1, Len(frames) - 1)
    /\ UNCHANGED <<pc, cycles, dfs_i>>
    /\ NotDfs

\* return cycles
dfs_done ==
    /\ pc = "cycles" /\ frames = <<>> /\ dfs_i > Len(file_order)
    /\ pc' = "report"
    /\ UNCHANGED <<cycles, path, visiting, visited, frames, dfs_i>>
    /\ NotDfs

(***************************************************************************)
(* _build_final_report.                                                    *)
(***************************************************************************)
\* the sort key (x['file'], x['line'])
KeyLess(x, y) ==
    \/ FileRank(x.file) < FileRank(y.file)
    \/ x.file = y.file /\ x.line < y.line

RECURSIVE InsertIssue(_, _)
InsertIssue(sorted, x) ==
    IF sorted = <<>> THEN <<x>>
    ELSE IF KeyLess(x, Head(sorted)) THEN <<x>> \o sorted
    ELSE <<Head(sorted)>> \o InsertIssue(Tail(sorted), x)
RECURSIVE SortIssues(_)
\* sorted(issues, key=lambda x: (x['file'], x['line'])): stable
SortIssues(l) ==
    IF l = <<>> THEN <<>>
    ELSE InsertIssue(SortIssues(SubSeq(l, 1, Len(l) - 1)), l[Len(l)])

\* _calculate_coupling: efferent is len(imports); afferent counts, over the
\* files and their imports, the imports that name the file
\* mutant: only the imports of analyzed files are counted
Efferent_AnalyzedOnly(fm, f) == Cardinality(fm[f].imports \cap DOMAIN fm)
Efferent(fm, f) == Cardinality(fm[f].imports)
Afferent(fm, f) == Cardinality({g \in DOMAIN fm : f \in fm[g].imports})
calculate_coupling(fm) ==
    [f \in DOMAIN fm |-> [afferent |-> Afferent(fm, f), efferent |-> Efferent(fm, f)]]

build_final_report ==
    /\ pc = "report"
    /\ report' = [undefined_symbols |-> SortIssues(undefined_symbols),
                  unused_symbols |-> SortIssues(unused_symbols),
                  circular_imports |-> cycles]
    /\ LET coupling == calculate_coupling(file_map)
       IN  file_map' = [f \in DOMAIN file_map |->
                          [definitions |-> file_map[f].definitions,
                           used_symbols |-> file_map[f].used_symbols,
                           imports |-> file_map[f].imports,
                           coupling |-> coupling[f]]]
    /\ pc' = "done"
    /\ UNCHANGED <<files, todo, cur, visitorVars, file_order, all_defined_symbols,
                   undefined_symbols, unused_symbols, dfsVars, runVars, diagramVars, last, load_log>>

(***************************************************************************)
(* A second run of the tool on the same input (a new process: a new        *)
(* ProjectAnalyzer, new hash seeds).                                       *)
(***************************************************************************)
FreshVisitor ==
    /\ agenda = <<>> /\ scope_stack = <<MagicNames>> /\ definitions = <<>>
    /\ used_symbols = <<>> /\ imports = {} /\ current_class_name = NoClass
FreshIssues ==
    /\ undefined_symbols = <<>> /\ unused_symbols = <<>> /\ report = NoIssues
FreshDfs ==
    /\ cycles = <<>> /\ path = <<>> /\ visiting = {} /\ visited = {}
    /\ frames = <<>> /\ dfs_i = 1
FreshHistory == last = NoStep /\ load_log = {}
\* the dependency visualizer is a program of its own: it is not running
NoDiagram ==
    /\ vpc = "off" /\ dependencies = <<>> /\ circular_pairs = {}
    /\ lines = <<>> /\ diagram = ""
ResetVisitor ==
    /\ agenda' = <<>> /\ scope_stack' = <<MagicNames>> /\ definitions' = <<>>
    /\ used_symbols' = <<>> /\ imports' = {} /\ current_class_name' = NoClass
ResetIssues ==
    /\ undefined_symbols' = <<>> /\ unused_symbols' = <<>> /\ report' = NoIssues
ResetDfs ==
    /\ cycles' = <<>> /\ path' = <<>> /\ visiting' = {} /\ visited' = {}
    /\ frames' = <<>> /\ dfs_i' = 1
ResetHistory == last' = NoStep /\ load_log' = {}

run_again ==
    /\ pc = "done" /\ run = 1
    /\ run' = 2
    /\ prev' = report
    /\ prev_order' = file_order
    /\ pc' = "scan" /\ todo' = PythonFiles /\ cur' = NoFile
    /\ ResetVisitor /\ ResetIssues /\ ResetDfs /\ ResetHistory
    /\ file_map' = <<>> /\ file_order' = <<>> /\ all_defined_symbols' = InitialIndex
    /\ UNCHANGED <<files, diagramVars>>

\* a second run of _detect_circular_imports on the same file_map
detect_again ==
    /\ pc = "report" /\ run = 1
    /\ run' = 2
    /\ prev' = [NoIssues EXCEPT !.circular_imports = cycles]
    /\ prev_order' = file_order
    /\ pc' = "cycles"
    /\ ResetDfs
    /\ UNCHANGED <<files, todo, cur, visitorVars, indexVars, issueVars, last, load_log,
                   diagramVars>>

(***************************************************************************)
(* Specifications.                                                         *)
(***************************************************************************)
Start(F, T) ==
    /\ files \in [F -> T]
    /\ pc = "scan" /\ todo = PythonFiles /\ cur = NoFile
    /\ FreshVisitor /\ FreshIssues /\ FreshDfs /\ FreshHistory
    /\ file_map = <<>> /\ file_order = <<>> /\ all_defined_symbols = InitialIndex
    /\ run = 1 /\ prev = NoIssues /\ prev_order = <<>>
    /\ NoDiagram

\* the statements of the files of the two-file project
ProjectStmts(l) ==
    {FunctionDef("f", ArgsOfKind("args", "p"), <<Expr(Load("p", l))>>, l),
     AssignX(l), Expr(Load("f", l)), Expr(Load("x", l)), Expr(Load("u", l))}
    \cup {Import(<<Alias(m, NoAsname)>>) : m \in {"a", "b"}}
    \cup {ImportFrom(<<m>>, <<Alias("f", NoAsname)>>, 0) : m \in {"a", "b"}}
    \cup {\* class C: lambda p: [p for x in len]
          ClassDef("C", <<Expr(Lambda(ArgsOfKind("args", "p"),
                             ListComp(Load("p", l),
                                  <<Comprehension(Store("x", l), Load("len", l),
                                                  <<>>)>>)))>>, l)}
ProjectTrees == {Module(<<s>>) : s \in ProjectStmts(1)} \cup {Unparsable}

Analyze ==
    \/ start_file \/ skip_file \/ Traverse \/ finish_file \/ collect_all_defined_symbols
    \/ find_undefined_symbols \/ find_unused_symbols
DetectCycles == dfs_start \/ dfs_neighbour \/ dfs_return \/ dfs_done

\* the analysis of a project of two files, run twice
Init == Start(ProjectFiles, ProjectTrees)
Next == Analyze \/ DetectCycles \/ build_final_report \/ run_again
Spec == Init /\ [][Next]_vars

\* the analysis of a project of one file, run twice
InitFile == Start(SingleFile, Trees)
SpecFile == InitFile /\ [][Next]_vars

\* cycle detection alone, on every import graph over the graph files
GraphFiles == {FilesSorted[i] : i \in 1..NumGraphFiles}
EdgeCount(g) == Cardinality({e \in GraphFiles \X GraphFiles : e[2] \in g[e[1]]})
Graphs == {g \in [GraphFiles -> SUBSET GraphFiles] : EdgeCount(g) <= MaxEdges}
FileMapOf(g) ==
    [f \in DOMAIN g |-> [definitions |-> <<>>, used_symbols |-> <<>>, imports |-> g[f]]]
InitCycle ==
    /\ files = [f \in GraphFiles |-> Module(<<>>)]
    /\ pc = "cycles" /\ todo = {} /\ cur = NoFile
    /\ FreshVisitor /\ FreshIssues /\ FreshDfs /\ FreshHistory
    /\ file_map \in {FileMapOf(g) : g \in Graphs}
    /\ file_order \in ListsOf(GraphFiles)
    /\ all_defined_symbols = InitialIndex
    /\ run = 1 /\ prev = NoIssues /\ prev_order = <<>>
    /\ NoDiagram
SpecCycle == InitCycle /\ [][DetectCycles]_vars

\* cycle detection run twice on the same graph
NextRerun == DetectCycles \/ detect_again
SpecRerun == InitCycle /\ [][NextRerun]_vars

\* the analysis of a project with a package directory: pkg/mod.py imports, the
\* other files are there or not; proj.py lies beside the project directory
FileMod == <<"pkg", "mod.py">>
FileSibling == <<"pkg", "sibling.py">>
FileSiblingInit == <<"pkg", "sibling", "__init__.py">>
FilePkgInit == <<"pkg", "__init__.py">>
FileBeside == <<"..", "proj.py">>
OtherFiles == {FileA, FileSibling, FileSiblingInit, FilePkgInit, FileBeside}
ImportOf(module, name, level) == ImportFrom(module, <<Alias(name, NoAsname)>>, level)
\* from . import sibling; from .sibling import f; from pkg.sibling import f;
\* from .. import a; from ..a import f; from ... import x
ModImports ==
    {ImportOf(<<>>, "sibling", 1), ImportOf(<<"sibling">>, "f", 1),
     ImportOf(<<"pkg", "sibling">>, "f", 0), ImportOf(<<>>, "a", 2),
     ImportOf(<<"a">>, "f", 2), ImportOf(<<>>, "x", 3)}
ModTrees ==
    LET S == [i \in 1..MaxStmts |-> ModImports]
    IN  {Module(b) : b \in UNION {Bodies(n, S) : n \in 1..MaxStmts}}
\* a.py: empty; from . import x; from pkg.mod import f
RootTrees ==
    {Module(<<>>), Module(<<ImportOf(<<>>, "x", 1)>>),
     Module(<<ImportOf(<<"pkg", "mod">>, "f", 0)>>)}
InitPackage ==
    /\ \E O \in {O \in SUBSET OtherFiles : Cardinality(O) <= NumProjectFiles} :
       \E m \in ModTrees : \E r \in RootTrees :
          files = [f \in O \cup {FileMod} |->
                      IF f = FileMod THEN m ELSE IF f = FileA THEN r ELSE Module(<<>>)]
    /\ pc = "scan" /\ todo = PythonFiles /\ cur = NoFile
    /\ FreshVisitor /\ FreshIssues /\ FreshDfs /\ FreshHistory
    /\ file_map = <<>> /\ file_order = <<>> /\ all_defined_symbols = InitialIndex
    /\ run = 1 /\ prev = NoIssues /\ prev_order = <<>>
    /\ NoDiagram
NextPackage ==
    \/ start_file \/ generic_visit \/ visit_ImportFrom \/ finish_file
    \/ collect_all_defined_symbols \/ find_undefined_symbols \/ find_unused_symbols
    \/ DetectCycles \/ build_final_report
SpecPackage == InitPackage /\ [][NextPackage]_vars


(***************************************************************************)
(* The dependency visualizer (all_visualize_dependencies.py): the module   *)
(* graph, the pairs reported as circular and the Mermaid text.             *)
(***************************************************************************)
\* the project's module names, in the order sorted() gives them
ModulesSorted == <<"a", "b", "c", "d">>
Modules == {ModulesSorted[i] : i \in 1..NumGraphFiles}
ModuleRank(m) == CHOOSE i \in 1..Len(ModulesSorted) : ModulesSorted[i] = m
\* sorted(S) for a set S of module names
SortedModules(S) == SelectSeq(ModulesSorted, LAMBDA m : m \in S)
\* tuple(sorted((x, y)))
SortedPair(x, y) == IF ModuleRank(x) <= ModuleRank(y) THEN <<x, y>> ELSE <<y, x>>

NotDiagram ==
    UNCHANGED <<files, visitorVars, indexVars, issueVars, dfsVars, ctlVars, runVars,
                last, load_log>>

\* DependencyAnalyzer.analyze, step 2. imp[m] is the set of project modules
\* the imports of module m's file resolve to; a module's reference to
\* itself is not added, and only an importer with a dependency gets a key
DependenciesOf(imp) ==
    LET importers == {m \in DOMAIN imp : imp[m] \ {m} # {}}
    IN  [m \in importers |-> imp[m] \ {m}]
analyze ==
    /\ vpc = "analyze"
    /\ \E imp \in [Modules -> SUBSET Modules] : dependencies' = DependenciesOf(imp)
    /\ vpc' = "find"
    /\ UNCHANGED <<circular_pairs, lines, diagram>>
    /\ NotDiagram

\* self.dependencies.get(m, set())
DependenciesGet(deps, m) == IF m \in DOMAIN deps THEN deps[m] ELSE {}
\* the links of the graph: (importer, imported)
LinkSet(deps) == {e \in (DOMAIN deps) \X Modules : e[2] \in deps[e[1]]}
\* DependencyAnalyzer.find_circular_dependencies: the pairs of modules that
\* import each other
CircularPairsOf(deps) ==
    {SortedPair(e[1], e[2]) :
        e \in {l \in LinkSet(deps) : l[1] \in DependenciesGet(deps, l[2])}}
find_circular_dependencies ==
    /\ vpc = "find"
    /\ circular_pairs' = CircularPairsOf(dependencies)
    /\ vpc' = "generate"
    /\ UNCHANGED <<dependencies, lines, diagram>>
    /\ NotDiagram

RECURSIVE LinksFrom(_, _)
\* the links in the order of the two sorted loops of generate, from the
\* importers ks on; a link is met once, so processed_links skips nothing
LinksFrom(deps, ks) ==
    IF ks = <<>> THEN <<>>
    ELSE LET importer == Head(ks)
             imported == SortedModules(deps[importer])
         IN  [j \in 1..Len(imported) |-> <<importer, imported[j]>>]
             \o LinksFrom(deps, Tail(ks))
AllLinks(deps) == LinksFrom(deps, SortedModules(DOMAIN deps))
IsCircular(link, pairs) == SortedPair(link[1], link[2]) \in pairs
LinkStr(link) == "    \"" \o link[1] \o "\" --> \"" \o link[2] \o "\";"
LinkStyleStr(n) ==
    "    linkStyle " \o ToString(n) \o " stroke:red,stroke-width:2px,stroke-dasharray: 5 5;"
LinkStrs(links) == [j \in 1..Len(links) |-> LinkStr(links[j])]
\* MermaidGenerator.generate: the list "lines" at the return
GenerateLines(deps, pairs) ==
    LET links == AllLinks(deps)
        normal_links == LinkStrs(SelectSeq(links, LAMBDA l : ~IsCircular(l, pairs)))
        styled_links == LinkStrs(SelectSeq(links, LAMBDA l : IsCircular(l, pairs)))
        offset == Len(normal_links)
    IN  <<"graph TD;">> \o normal_links \o styled_links
        \o [i \in 1..Len(styled_links) |-> LinkStyleStr(offset + i - 1)]
RECURSIVE Join(_, _)
\* sep.join(ls)
Join(sep, ls) ==
    IF ls = <<>> THEN ""
    ELSE IF Len(ls) = 1 THEN ls[1]
    ELSE ls[1] \o sep \o Join(sep, Tail(ls))
generate ==
    /\ vpc = "generate"
    /\ lines' = GenerateLines(dependencies, circular_pairs)
    /\ diagram' = Join("\n", lines')
    /\ vpc' = "done"
    /\ UNCHANGED <<dependencies, circular_pairs>>
    /\ NotDiagram

\* the visualizer's main on a project of NumGraphFiles modules
InitDiagram ==
    /\ files = <<>>
    /\ pc = "off" /\ todo = {} /\ cur = NoFile
    /\ FreshVisitor /\ FreshIssues /\ FreshDfs /\ FreshHistory
    /\ file_map = <<>> /\ file_order = <<>> /\ all_defined_symbols = InitialIndex
    /\ run = 1 /\ prev = NoIssues /\ prev_order = <<>>
    /\ vpc = "analyze" /\ dependencies = <<>> /\ circular_pairs = {}
    /\ lines = <<>> /\ diagram = ""
NextDiagram == analyze \/ find_circular_dependencies \/ generate
SpecDiagram == InitDiagram /\ [][NextDiagram]_vars


(***************************************************************************)
(* What the trees say, read off the syntax alone: the reference the        *)
(* analyzer's findings are compared with.                                  *)
(***************************************************************************)
\* every child node of a node
AllKids(n) ==
    CASE n.k \in {"Name", "Import", "ImportFrom", "SyntaxError"} -> <<>>
      [] n.k = "Assign" -> n.targets \o <<n.value>>
      [] n.k = "DictComp" -> <<n.key, n.value>> \o n.generators
      [] n.k \in {"ListComp", "SetComp", "GeneratorExp"} -> <<n.elt>> \o n.generators
      [] n.k = "comprehension" -> <<n.target, n.iter>> \o n.ifs
      [] OTHER -> Children(n)

RECURSIVE Nodes(_)
\* a node and all its descendants
Nodes(n) == {n} \cup UNION {Nodes(c) : c \in Range(AllKids(n))}

\* the Name reads of a tree, as (name, line)
AllLoads(n) == {<<m.id, m.line>> : m \in {m \in Nodes(n) : m.k = "Name" /\ m.ctx = "Load"}}

\* every parameter name of a function or lambda, of every kind
AllParams(args) ==
    Range(args.posonlyargs) \cup Range(args.args) \cup Range(args.vararg)
    \cup Range(args.kwonlyargs) \cup Range(args.kwarg)

ScopeKinds == {"Module", "FunctionDef", "Lambda", "ClassDef"} \cup CompKinds

RECURSIVE StoredHere(_)
\* the names a node binds, as assignment, loop or comprehension targets, in the
\* scope it stands in (not those bound in the scopes nested in it)
StoredHere(n) ==
    IF n.k = "Name" THEN (IF n.ctx = "Store" THEN {n.id} ELSE {})
    ELSE IF n.k \in ScopeKinds THEN {}
    ELSE UNION {StoredHere(c) : c \in Range(AllKids(n))}

\* the names bound in the scope a node opens: parameters and targets
BoundInScope(n) ==
    (IF n.k \in {"FunctionDef", "Lambda"} THEN AllParams(n.args) ELSE {})
    \cup UNION {StoredHere(c) : c \in Range(AllKids(n))}

RECURSIVE LexicalUses(_, _)
\* the Name reads below a node, each with whether an enclosing scope (env: the
\* names bound in the scopes around the node) binds the name anywhere in its body
LexicalUses(n, env) ==
    IF n.k = "Name"
    THEN (IF n.ctx = "Load"
          THEN {[id |-> n.id, line |-> n.line, bound |-> n.id \in env]} ELSE {})
    ELSE LET inner == IF n.k \in ScopeKinds THEN env \cup BoundInScope(n) ELSE env
         IN  UNION {LexicalUses(c, inner) : c \in Range(AllKids(n))}

\* every name a tree binds anywhere, by any construct
BoundAnywhere(n) ==
    UNION {CASE m.k = "Name" -> (IF m.ctx = "Store" THEN {m.id} ELSE {})
             [] m.k \in {"FunctionDef", "Lambda"} ->
                   AllParams(m.args) \cup (IF m.k = "FunctionDef" THEN {m.name} ELSE {})
             [] m.k = "ClassDef" -> {m.name}
             [] m.k \in {"Import", "ImportFrom"} -> AliasNames(m.names)
             [] OTHER -> {}
           : m \in Nodes(n)}

\* the project files a file's import statements name
ImportedFiles(f) ==
    LET here == dirname(f)
        OfStmt(m) ==
            IF m.k = "Import"
            THEN {WithPy(<<m.names[j].name>>) : j \in 1..Len(m.names)}
            ELSE IF m.level = 0 THEN {WithPy(m.module)}
            ELSE IF m.module # <<>> THEN {Ascend(here, m.level - 1) \o WithPy(m.module)}
            ELSE {Ascend(here, m.level - 1) \o WithPy(<<m.names[j].name>>)
                     : j \in 1..Len(m.names)}
    IN  UNION {OfStmt(m) : m \in {m \in Nodes(files[f]) : m.k \in {"Import", "ImportFrom"}}}
        \cap DOMAIN files

Issues(l) == Range(l)
Finding(id, f, line) == [symbol |-> id, file |-> f, line |-> line]
Done == pc = "done"
ProjectDefNames == UNION {DefNames(file_map[f].definitions) : f \in DOMAIN file_map}
Count(l, x) == Cardinality({j \in 1..Len(l) : l[j] = x})

(***************************************************************************)
(* The claims.                                                             *)
(***************************************************************************)

\* C1: a name bound inside a scope (parameter, loop or comprehension target,
\* assignment target) is never reported undefined where it is read in that scope
\* or in a scope nested in it, even when the read comes before the binding.
C1_BoundNamesNeverUndefined ==
    Done =>
        \A f \in DOMAIN files : \A u \in LexicalUses(files[f], {}) :
            u.bound => Finding(u.id, f, u.line) \notin Issues(report.undefined_symbols)

\* C2: right after a function definition is visited, the scope opened for its body
\* holds every parameter name, of every kind; so no read of a parameter in the
\* body becomes a pending use.
C2_ScopeSeededWithAllParams ==
    /\ (pc = "visit" /\ last.op = "visit" /\ last.node.k = "FunctionDef")
          => AllParams(last.node.args) \subseteq scope_stack[Len(scope_stack)]
    /\ (pc = "visit") =>
          \A fn \in {m \in Nodes(files[cur]) : m.k = "FunctionDef"} :
              \A u \in UNION {AllLoads(b) : b \in Range(fn.body)} :
                  u[1] \in AllParams(fn.args) => u \notin Range(used_symbols)

\* C3: a use, in one analyzed file, of a name with a definition recorded in
\* another analyzed file is never reported undefined.
C3_CrossFileVisibility ==
    Done =>
        \A f1 \in DOMAIN file_map : \A f2 \in DOMAIN file_map \ {f1} :
            \A u \in AllLoads(files[f2]) :
                u[1] \in DefNames(file_map[f1].definitions)
                    => Finding(u[1], f2, u[2]) \notin Issues(report.undefined_symbols)
\* a pending use of one file was settled by a definition of another file
C3_Witness ==
    /\ Done
    /\ \E f1 \in DOMAIN file_map : \E f2 \in DOMAIN file_map \ {f1} :
          \E u \in Range(file_map[f2].used_symbols) :
              /\ u[1] \in DefNames(file_map[f1].definitions)
              /\ u[1] \notin DefNames(file_map[f2].definitions)
              /\ u \in AllLoads(files[f2])

\* the Name reads of a file, each with whether it is resolved in its file's
\* scopes: what the traversal found in the open scopes when it looked the name up
\* and, for a read the traversal never looked up, whether an enclosing scope binds it
UseFacts(f) ==
    UNION {LET es == {e \in load_log : e.file = f /\ e.id = u.id /\ e.line = u.line}
           IN  IF es = {} THEN {[id |-> u.id, line |-> u.line, resolved |-> u.bound]}
               ELSE {[id |-> u.id, line |-> u.line, resolved |-> e.resolved] : e \in es}
           : u \in LexicalUses(files[f], {})}

\* C4: the undefined findings are exactly the uses that are not resolved in the
\* open scopes of their file, whose name no analyzed file defines, and whose name
\* is not a builtin.
C4_UndefinedIffThreeConditions ==
    Done =>
        Issues(report.undefined_symbols) =
            UNION {{Finding(u.id, f, u.line) :
                       u \in {u \in UseFacts(f) : /\ ~u.resolved
                                                   /\ u.id \notin ProjectDefNames
                                                   /\ u.id \notin Builtins}}
                   : f \in DOMAIN files}

\* C5: a name read in a file, bound nowhere in the project and not a builtin, is in
\* the undefined list exactly once per (file, line, name); a second run on the
\* same input reports the same set of findings.
C5_ReportedExactlyOnce ==
    Done =>
        /\ \A f \in DOMAIN files : \A u \in AllLoads(files[f]) :
              (/\ u[1] \notin UNION {BoundAnywhere(files[g]) : g \in DOMAIN files}
               /\ u[1] \notin Builtins \cup MagicNames)
                  => Count(report.undefined_symbols, Finding(u[1], f, u[2])) = 1
        /\ run = 2 => Issues(report.undefined_symbols) = Issues(prev.undefined_symbols)

\* C6: a function, class or module-level variable definition is reported unused
\* exactly when its name is read nowhere in the project.
C6_UnusedIffNeverRead ==
    Done =>
        \A f \in DOMAIN file_map : \A d \in Range(file_map[f].definitions) :
            d.type \in {"function", "class", "variable"} =>
                (([symbol |-> d.name, type |-> d.type, file |-> f, line |-> d.line]
                      \in Issues(report.unused_symbols))
                 <=> d.name \notin UNION {{u[1] : u \in AllLoads(files[g])}
                                             : g \in DOMAIN files})

\* C7: when file A imports file B and B imports A, by any import form, some
\* reported cycle contains both.
C7_MutualImportIsACycle ==
    Done =>
        \A a \in DOMAIN files : \A b \in DOMAIN files \ {a} :
            (b \in ImportedFiles(a) /\ a \in ImportedFiles(b))
                => \E j \in 1..Len(report.circular_imports) :
                       {a, b} \subseteq Range(report.circular_imports[j])


\* the files a set of files reaches along import edges, itself included
Successors(S) == S \cup UNION {Neighbours(file_map, n) : n \in S}
RECURSIVE ReachFrom(_)
ReachFrom(S) == IF Successors(S) = S THEN S ELSE ReachFrom(Successors(S))
\* the strongly connected component of a file
Component(a) == {b \in ReachFrom({a}) : a \in ReachFrom({b})}
Detected == pc = "report"

\* C8: whatever the order of start nodes and neighbours, when cycle detection
\* returns, every strongly connected component with more than one file has a
\* reported cycle all of whose members belong to it.
C8_CyclePerComponent ==
    Detected =>
        \A a \in DOMAIN file_map :
            Cardinality(Component(a)) > 1
                => \E j \in 1..Len(cycles) : Range(cycles[j]) \subseteq Component(a)
\* detection returned on a graph with a component of several files that is not
\* the whole graph
C8_Witness ==
    /\ Detected
    /\ \E a \in DOMAIN file_map :
          /\ Cardinality(Component(a)) > 1
          /\ Component(a) # DOMAIN file_map
          /\ \E j \in 1..Len(cycles) : Range(cycles[j]) \subseteq Component(a)

\* C9: the cycle list never holds two cycles with the same set of member files.
C9_NoTwoCyclesWithSameFiles ==
    \A i \in 1..Len(cycles) : \A j \in 1..Len(cycles) :
        i # j => Range(cycles[i]) # Range(cycles[j])
\* a second cycle was compared with a recorded one and recorded too
C9_Witness ==
    /\ Len(cycles) >= 2
    /\ \E i \in 1..Len(cycles) : \E j \in 1..Len(cycles) :
          i # j /\ Range(cycles[i]) \cap Range(cycles[j]) # {}

\* C10: two runs of cycle detection on the same graph return the same cycle list.
C10_SameCyclesOnEveryRun ==
    (Detected /\ run = 2) => cycles = prev.circular_imports

\* Ce / (Ce + Ca) as the fraction <<numerator, denominator>>; 0.0 is <<0, 1>>
Instability(ce, ca) == IF ce + ca = 0 THEN <<0, 1>> ELSE <<ce, ce + ca>>

\* C11: the coupling result gives every analyzed file, the isolated ones included,
\* its instability Ce / (Ce + Ca), which is 0.0 when Ce + Ca = 0.
C11_InstabilityOfEveryFile ==
    Done =>
        \A f \in {f \in PythonFiles : files[f] # Unparsable} :
            /\ f \in DOMAIN file_map
            /\ "instability" \in DOMAIN file_map[f].coupling
            /\ file_map[f].coupling.instability
                   = Instability(file_map[f].coupling.efferent,
                                 file_map[f].coupling.afferent)

\* the files the from-import statements of a file resolve to
ResolvedTargets(f) ==
    {relpath(q, ProjectRoot) :
        q \in {resolve_import_path(AbsPath(f), m.module, m.level) :
                  m \in {m \in Nodes(files[f]) : m.k = "ImportFrom"}} \ {<<>>}}
RECURSIVE SumOf(_, _)
\* the sum of one coupling count over a set of files
SumOf(field, S) ==
    IF S = {} THEN 0
    ELSE LET f == CHOOSE f \in S : TRUE
         IN  file_map[f].coupling[field] + SumOf(field, S \ {f})

\* C12: Ce(f) is the number of distinct files f imports and Ca(f) the number of
\* distinct files that import f; when every import target is an analyzed file,
\* the Ca of all files sum to the Ce of all files.
C12_CouplingCountsDistinctFiles ==
    Done =>
        /\ \A f \in DOMAIN file_map :
              /\ file_map[f].coupling.efferent = Cardinality(ResolvedTargets(f))
              /\ file_map[f].coupling.afferent
                     = Cardinality({g \in DOMAIN file_map : f \in ResolvedTargets(g)})
        /\ (\A g \in DOMAIN file_map : ResolvedTargets(g) \subseteq DOMAIN file_map)
               => SumOf("afferent", DOMAIN file_map) = SumOf("efferent", DOMAIN file_map)
\* pkg/mod.py imports one analyzed file by two statements, and it counts once
C12_Witness ==
    /\ Done
    /\ \A g \in DOMAIN file_map : ResolvedTargets(g) \subseteq DOMAIN file_map
    /\ Len(files[FileMod].body) = 2
    /\ files[FileMod].body[1] # files[FileMod].body[2]
    /\ \E t \in DOMAIN file_map :
          /\ ResolvedTargets(FileMod) = {t}
          /\ \A j \in 1..2 :
                resolve_import_path(AbsPath(FileMod), files[FileMod].body[j].module,
                                    files[FileMod].body[j].level) = AbsPath(t)
          /\ file_map[FileMod].coupling.efferent = 1
          /\ file_map[t].coupling.afferent >= 1

\* C13: 'from . import sibling' in pkg/mod.py makes an import edge from pkg/mod.py
\* to pkg/sibling.py when that file exists, or else to pkg/sibling/__init__.py
\* when that one exists.
C13_FromDotImportSibling ==
    Done =>
        (ImportOf(<<>>, "sibling", 1) \in Range(files[FileMod].body) =>
            /\ FileSibling \in DOMAIN files
                  => FileSibling \in file_map[FileMod].imports
            /\ (FileSibling \notin DOMAIN files /\ FileSiblingInit \in DOMAIN files)
                  => FileSiblingInit \in file_map[FileMod].imports)

\* a path lies inside the project root
InsideRoot(p) ==
    Len(p) > Len(ProjectRoot) /\ SubSeq(p, 1, Len(ProjectRoot)) = ProjectRoot

\* C14: every import edge recorded for a file leads to an existing file inside
\* the project root; an import whose candidate is not such a file makes no edge.
C14_EdgesStayInsideRoot ==
    /\ \A q \in imports : exists(q) /\ InsideRoot(q)
    /\ \A f \in DOMAIN file_map : \A t \in file_map[f].imports :
          t \in DOMAIN files /\ InsideRoot(AbsPath(t))

\* the files whose reading or parsing fails, and the findings about a file
Failed == {f \in PythonFiles : files[f] = Unparsable}
FindingsIn(l, f) == {x \in Issues(l) : x.file = f}

\* C15: a file that cannot be read or parsed has no entry in the file details and
\* contributes no definition, use or outgoing edge to the report; every other file
\* is analyzed and the undefined, unused, cycle and coupling passes run over them.
C15_FailureIsIsolated ==
    Done =>
        /\ \A f \in Failed :
              /\ f \notin DOMAIN file_map
              /\ FindingsIn(report.undefined_symbols, f) = {}
              /\ FindingsIn(report.unused_symbols, f) = {}
              /\ \A j \in 1..Len(report.circular_imports) :
                    f \notin Range(report.circular_imports[j])
        /\ DOMAIN file_map = PythonFiles \ Failed
        /\ \A g \in DOMAIN file_map :
              /\ file_map[g].coupling = calculate_coupling(file_map)[g]
              /\ \A u \in Range(file_map[g].used_symbols) :
                    u[1] \notin ProjectDefNames \cup InitialIndex
                        => Finding(u[1], g, u[2]) \in Issues(report.undefined_symbols)
\* one file failed and another file, which imports it, was analyzed and reported
C15_Witness ==
    /\ Done
    /\ \E f \in Failed : \E g \in DOMAIN file_map :
          f \in file_map[g].imports /\ file_map[g].coupling.efferent = 1

\* C16: for every order of analysis, a use in an earlier-analyzed file of a name
\* defined only in a later-analyzed file is not reported undefined, and the set of
\* undefined findings does not depend on the order.
C16_UndefinedPassAfterAllFiles ==
    Done =>
        /\ \A i \in 1..Len(file_order) : \A j \in (i + 1)..Len(file_order) :
              \A u \in Range(file_map[file_order[i]].used_symbols) :
                  u[1] \in DefNames(file_map[file_order[j]].definitions)
                      => Finding(u[1], file_order[i], u[2])
                             \notin Issues(report.undefined_symbols)
        /\ run = 2 => Issues(report.undefined_symbols) = Issues(prev.undefined_symbols)
\* the second run analyzed the files in another order than the first, and the
\* file analyzed first uses a name that only the file analyzed after it defines
C16_Witness ==
    /\ Done /\ run = 2
    /\ Len(file_order) = 2 /\ prev_order = <<file_order[2], file_order[1]>>
    /\ \E u \in Range(file_map[file_order[1]].used_symbols) :
          /\ u[1] \in DefNames(file_map[file_order[2]].definitions)
          /\ u[1] \notin DefNames(file_map[file_order[1]].definitions) \cup InitialIndex
    /\ report.undefined_symbols = <<>>

RECURSIVE DeepTargetNames(_)
\* the names a loop target binds, at any depth of destructuring
DeepTargetNames(t) ==
    IF t.k = "Name" THEN {t.id}
    ELSE IF t.k = "Tuple" THEN UNION {DeepTargetNames(e) : e \in Range(t.elts)}
    ELSE {}
\* the expressions a comprehension yields
YieldedExprs(c) == IF c.k = "DictComp" THEN {c.key, c.value} ELSE {c.elt}

\* C17: no read, in the yielded expression of a comprehension, of a loop-target
\* name of one of its generator clauses, at any depth of destructuring, is
\* recorded as a pending use.
C17_ComprehensionTargetsBound ==
    \A f \in DOMAIN file_map :
        \A c \in {n \in Nodes(files[f]) : n.k \in CompKinds} :
            \A u \in UNION {AllLoads(e) : e \in YieldedExprs(c)} :
                u[1] \in UNION {DeepTargetNames(g.target) : g \in Range(c.generators)}
                    => u \notin Range(file_map[f].used_symbols)

\* C20: every name read in load context in a file's tree was looked up in the
\* open scopes by the traversal (and so resolved or recorded as a pending use):
\* none is skipped, the reads in the key and the value of a dict comprehension
\* included.
C20_EveryLoadProcessed ==
    \A f \in DOMAIN file_map : \A u \in AllLoads(files[f]) :
        \E e \in load_log : e.file = f /\ e.id = u[1] /\ e.line = u[2]

\* the scopes the traversal still has to close
OpenConstructs ==
    Cardinality({j \in 1..Len(agenda) : agenda[j].op \in {"pop", "leave_class"}})
RECURSIVE ModuleNames(_)
\* the names a node binds in the scope it stands in: targets, the names of
\* functions and classes, imported names; nothing from inside a nested scope
ModuleNames(n) ==
    CASE n.k = "Name" -> (IF n.ctx = "Store" THEN {n.id} ELSE {})
      [] n.k \in {"FunctionDef", "ClassDef"} -> {n.name}
      [] n.k \in {"Import", "ImportFrom"} -> AliasNames(n.names)
      [] n.k \in {"Lambda"} \cup CompKinds -> {}
      [] OTHER -> UNION {ModuleNames(c) : c \in Range(AllKids(n))}
\* the stack in the states of a traversal: the module scope is at the bottom, one
\* scope is open per construct not yet left, and once the traversal has returned
\* only the module scope is left, holding no name bound inside a construct
ScopeStackInState ==
    pc = "visit" =>
        /\ Len(scope_stack) >= 1
        /\ MagicNames \subseteq scope_stack[1]
        /\ Len(scope_stack) = 1 + OpenConstructs
        /\ agenda = <<>> => scope_stack = <<MagicNames \cup ModuleNames(files[cur])>>
\* a step of the traversal changes the top scope only: it adds names to it, pushes
\* a scope onto it after adding at most the name of the function or class it
\* enters, or pops it; the scopes below stay as they are
ScopeStackInStep ==
    (pc = "visit" /\ pc' = "visit") =>
        LET d == Len(scope_stack)
        IN  /\ Len(scope_stack') \in {d - 1, d, d + 1}
            /\ \A i \in 1..(d - 1) : scope_stack'[i] = scope_stack[i]
            /\ Len(scope_stack') = d => scope_stack[d] \subseteq scope_stack'[d]
            /\ Len(scope_stack') = d + 1 =>
                  /\ agenda[1].op = "visit"
                  /\ scope_stack'[d] =
                        scope_stack[d] \cup
                            (IF agenda[1].node.k \in {"FunctionDef", "ClassDef"}
                             THEN {agenda[1].node.name} ELSE {})
            /\ Len(scope_stack') = d - 1 => agenda[1].op \in {"pop", "leave_class"}

\* C19: during a traversal the scope stack has depth at least one with the module
\* scope at the bottom; a function, class, lambda or comprehension leaves the stack
\* at the depth it found, changes no enclosing scope but for the function or class
\* name added to the scope right around it, and the names bound inside it are gone
\* from the stack when it is left.
C19_ScopeStackDiscipline == []ScopeStackInState /\ [][ScopeStackInStep]_vars
\* a function with a parameter was left: its name is in the module scope, the
\* parameter is not, and the stack is back at depth one
C19_Witness ==
    /\ pc = "visit" /\ last.op = "pop" /\ Len(scope_stack) = 1
    /\ \E n \in Nodes(files[cur]) :
          /\ n.k = "FunctionDef" /\ n.name \in scope_stack[1]
          /\ Range(n.args.args) # {} /\ Range(n.args.args) \cap scope_stack[1] = {}

RECURSIVE ModulesReachedFrom(_, _)
\* the modules reached from the modules S along the links, S included
ModulesReachedFrom(deps, S) ==
    LET T == S \cup UNION {DependenciesGet(deps, m) : m \in S}
    IN  IF T = S THEN S ELSE ModulesReachedFrom(deps, T)
\* the link lies on an import cycle, of whatever length: its importer is
\* reached again from its imported module
OnImportCycle(deps, link) == link[1] \in ModulesReachedFrom(deps, {link[2]})

\* C18: in the generated diagram every link has its line, and the index of
\* that line among the links has a linkStyle line if and only if the link
\* lies on an import cycle of any length.
C18_StyledIffOnCycle ==
    vpc = "done" =>
        \A link \in LinkSet(dependencies) :
            \E j \in 2..Len(lines) :
                /\ lines[j] = LinkStr(link)
                /\ LinkStyleStr(j - 2) \in Range(lines)
                       <=> OnImportCycle(dependencies, link)

\* the functions defined directly in a class body of the tree t: the methods
MethodsIn(t) ==
    UNION {{c.body[j] : j \in {i \in 1..Len(c.body) : c.body[i].k = "FunctionDef"}}
              : c \in {n \in Nodes(t) : n.k = "ClassDef"}}

\* C21: a function defined directly in a class body is never recorded as a
\* "function" definition and never reported unused, whatever precedes it in
\* the class body, a nested class that was entered and left included.
C21_MethodsNeverFunctions ==
    Done =>
        \A f \in DOMAIN file_map : \A m \in MethodsIn(files[f]) :
            /\ \A d \in Range(file_map[f].definitions) :
                  ~(d.type = "function" /\ d.name = m.name /\ d.line = m.line)
            /\ \A x \in Issues(report.unused_symbols) :
                  ~(x.file = f /\ x.symbol = m.name /\ x.line = m.line)

\* x imports y
ImportEdge(x, y) == x \in DOMAIN file_map /\ y \in file_map[x].imports
\* c is a closed path of the import graph that repeats its first file only
ClosedPath(c) ==
    /\ Len(c) >= 2
    /\ c[1] = c[Len(c)]
    /\ \A i \in 1..(Len(c) - 1) : ImportEdge(c[i], c[i + 1])
    /\ \A i \in 1..(Len(c) - 1) : \A j \in 1..(Len(c) - 1) : i # j => c[i] # c[j]
CyclesAreClosedPaths == \A j \in 1..Len(cycles) : ClosedPath(cycles[j])
\* a step that records a cycle appends one cycle: without its closing repeat it
\* is the suffix of the current path that starts at its first file, and the
\* path is on that step what it was
RecordsPathSuffix ==
    Len(cycles') > Len(cycles) =>
        /\ Len(cycles') = Len(cycles) + 1
        /\ SubSeq(cycles', 1, Len(cycles)) = cycles
        /\ path' = path
        /\ LET c == cycles'[Len(cycles')]
               n == Len(c) - 1
           IN  /\ n >= 1 /\ n <= Len(path)
               /\ SubSeq(c, 1, n) = SubSeq(path, Len(path) - n + 1, Len(path))
               /\ c[n + 1] = c[1]
               /\ \A i \in 1..(Len(path) - n) : path[i] # c[1]

\* C22: every recorded cycle is a closed path of the import graph: its first and
\* last elements are the same file, every consecutive pair is an import edge, and
\* no file but the first appears twice; and when a cycle is recorded, its elements
\* without the closing repeat are the suffix of the current DFS path that starts at
\* the neighbour met again.
C22_CyclesAreRealClosedPaths == []CyclesAreClosedPaths /\ [][RecordsPathSuffix]_vars
\* a cycle of two files was recorded while the path held a file before the
\* cycle's first: the cycle is a proper suffix of the path
C22_Witness ==
    /\ cycles # <<>> /\ frames # <<>>
    /\ LET c == cycles[Len(cycles)]
           n == Len(c) - 1
       IN  /\ n >= 2 /\ n < Len(path)
           /\ SubSeq(c, 1, n) = SubSeq(path, Len(path) - n + 1, Len(path))
           /\ ImportEdge(path[Len(path)], c[1])

============================================================================
